---- MODULE Spec2Model ----
(***************************************************************************)
(* Model of package eso (tehsphinx/elastic): the reflection binder         *)
(* Doc.fillFields / Doc._fillFields and the process-wide client registry   *)
(* (RegisterClient, newClient, NewIndex).                                  *)
(*                                                                         *)
(* Go values are records tagged by their reflect.Kind in field k.          *)
(* A failed reflect call (SetInt on a string field, NumField on a          *)
(* non-struct, Type on a zero Value, Kind on a nil Type) is the outcome    *)
(* Panic: the call never returns.                                          *)
(***************************************************************************)
EXTENDS Integers, Sequences, FiniteSets, TLC

\* ---------------------------------------------------------------- bounds
\* largest number of entries of one field map
MaxKeys == 3
\* largest length of a source sequence
MaxSeqLen == 2
\* number of NewIndex calls in one run
MaxIndexes == 3
\* number of RegisterClient calls in one run
MaxRegister == 3

\* ---------------------------------------------------------------- results
\* fillFields has not been called yet
NoCall == "no call"
\* return nil
Ok == "nil"
\* errors.New("res is not a pointer")
InvalidTarget == "res is not a pointer"
\* errors.New("could not cast to map[string]interface{}: ...") and the
\* []map[string]interface{} twin
ShapeMismatch == "could not cast"
\* errors.New("elastic Doc._fillFields: unsupported type")
UnsupportedType == "elastic Doc._fillFields: unsupported type"
\* a reflect call panicked: no error value is returned
Panic == "panic"

\* ---------------------------------------------------------------- Go types
TInt == [k |-> "int"]
TString == [k |-> "string"]
TFloat32 == [k |-> "float32"]
TFloat64 == [k |-> "float64"]
TBool == [k |-> "bool"]
TStruct(n) == [k |-> "struct", name |-> n]
TPtr(t) == [k |-> "ptr", elem |-> t]
TSlice(t) == [k |-> "slice", elem |-> t]

\* one declared field: Go name, json tag ("" when the field has none), type
Fld(n, tag, t) == [name |-> n, tag |-> tag, type |-> t]

\* The target types of the model, in declaration order.
\*   Sub3  {Z int "z"; W string "w"}
\*   Sub2  {Y int "y"; Deep Sub3 "deep"}
\*   Sub   {X int "x"; Mid Sub2 "mid"}
\*   Flat  {A int "a"; B string "b"; F float32 "f"; G float64 "g";
\*          U int (no tag); H int "-"}
\*   Nest  {N int "n"; Inner Sub "inner"; P *Sub3 "p"}
\*   List  {C int "c"; Items []Sub3 "items"; Refs []*Sub3 "refs"}
StructFields(n) ==
    CASE n = "Sub3" -> << Fld("Z", "z", TInt), Fld("W", "w", TString) >>
      [] n = "Sub2" -> << Fld("Y", "y", TInt), Fld("Deep", "deep", TStruct("Sub3")) >>
      [] n = "Sub"  -> << Fld("X", "x", TInt), Fld("Mid", "mid", TStruct("Sub2")) >>
      [] n = "Flat" -> << Fld("A", "a", TInt), Fld("B", "b", TString),
                          Fld("F", "f", TFloat32), Fld("G", "g", TFloat64),
                          Fld("U", "", TInt), Fld("H", "-", TInt) >>
      [] n = "Nest" -> << Fld("N", "n", TInt), Fld("Inner", "inner", TStruct("Sub")),
                          Fld("P", "p", TPtr(TStruct("Sub3"))) >>
      [] n = "List" -> << Fld("C", "c", TInt), Fld("Items", "items", TSlice(TStruct("Sub3"))),
                          Fld("Refs", "refs", TSlice(TPtr(TStruct("Sub3")))) >>

\* ---------------------------------------------------------------- Go values
\* Floats are counted in units of 2^-24: the float64 m * 2^-24.
One == 2^24

VInt(n) == [k |-> "int", i |-> n]
VString(s) == [k |-> "string", s |-> s]
VFloat32(m) == [k |-> "float32", m |-> m]
VFloat64(m) == [k |-> "float64", m |-> m]
VBool(b) == [k |-> "bool", b |-> b]
\* the nil interface value
VNil == [k |-> "nil"]
VStruct(f) == [k |-> "struct", f |-> f]
\* a nil pointer and a pointer to the value p
VNilPtr == [k |-> "ptr", isnil |-> TRUE, p |-> VNil]
VPtr(p) == [k |-> "ptr", isnil |-> FALSE, p |-> p]
\* a slice value with elements e
VSlice(e) == [k |-> "slice", e |-> e]
\* a map source value: generic is TRUE for the dynamic type
\* map[string]interface{}, FALSE for any other map type
VMap(generic, m) == [k |-> "map", generic |-> generic, m |-> m]
\* a slice source value: ofmaps is TRUE for the dynamic type
\* []map[string]interface{}, FALSE for any other slice type
VSeq(ofmaps, e) == [k |-> "slice", ofmaps |-> ofmaps, e |-> e]

\* float32(x) for a float64 x in [0, 2): round to nearest, ties to even.
\* Below 1 every multiple of 2^-24 is a float32; in [1, 2) the float32
\* values are the multiples of 2^-23.
F32(m) ==
    IF m < One \/ m % 2 = 0 THEN m
    ELSE IF ((m - 1) \div 2) % 2 = 0 THEN m - 1 ELSE m + 1

\* the names of the declared fields of struct type n
FieldNames(n) == {StructFields(n)[i].name : i \in 1..Len(StructFields(n))}

\* reflect.Value.FieldByName(name).Type() on a struct of type n
FieldType(n, name) ==
    StructFields(n)[CHOOSE i \in 1..Len(StructFields(n)) : StructFields(n)[i].name = name].type

RECURSIVE Zero(_)
\* the zero value of type t: what reflect.MakeSlice puts in every element
Zero(t) ==
    CASE t.k = "int" -> VInt(0)
      [] t.k = "string" -> VString("")
      [] t.k = "float32" -> VFloat32(0)
      [] t.k = "float64" -> VFloat64(0)
      [] t.k = "bool" -> VBool(FALSE)
      [] t.k = "ptr" -> VNilPtr
      [] t.k = "slice" -> VSlice(<< >>)
      [] t.k = "struct" -> VStruct([n \in FieldNames(t.name) |-> Zero(FieldType(t.name, n))])

\* ---------------------------------------------------------------- binder
RECURSIVE BuildFieldMap(_, _)
RECURSIVE BuildFieldMap_KeepDash(_, _)
\* BuildFieldMap without the test tag != "-"
BuildFieldMap_KeepDash(fs, i) ==
    IF i = 0 THEN << >>
    ELSE LET prev == BuildFieldMap_KeepDash(fs, i - 1)
             tag == fs[i].tag
         IN  IF tag # ""
             THEN [t \in (DOMAIN prev) \cup {tag} |-> IF t = tag THEN fs[i].name ELSE prev[t]]
             ELSE prev

\* the loop over vt.NumField(): json tag -> Go field name, for the first i
\* declared fields; a later field with the same tag overwrites an earlier one
BuildFieldMap(fs, i) ==
    IF i = 0 THEN << >>
    ELSE LET prev == BuildFieldMap(fs, i - 1)
             tag == fs[i].tag
         IN  IF tag # "" /\ tag # "-"
             THEN [t \in (DOMAIN prev) \cup {tag} |-> IF t = tag THEN fs[i].name ELSE prev[t]]
             ELSE prev

\* fieldMap of _fillFields for struct type n
FieldMapOf(n) == BuildFieldMap(StructFields(n), Len(StructFields(n)))

\* one result of a (partial) run of _fillFields: the value as left behind,
\* the returned error (Ok, an error, or Panic) and the keys taken from the
\* range loop so far, in order
Outcome(v, err, done) == [v |-> v, err |-> err, done |-> done]

\* field.SetInt / SetString / SetFloat: reflect panics unless the field's
\* kind is the setter's; SetFloat stores float32(x) in a float32 field
SetScalar(ft, fv, val) ==
    CASE val.k = "int" ->
            IF ft.k = "int" THEN Outcome(VInt(val.i), Ok, << >>) ELSE Outcome(fv, Panic, << >>)
      [] val.k = "string" ->
            IF ft.k = "string" THEN Outcome(VString(val.s), Ok, << >>) ELSE Outcome(fv, Panic, << >>)
      [] val.k \in {"float32", "float64"} ->
            IF ft.k = "float64" THEN Outcome(VFloat64(val.m), Ok, << >>)
            ELSE IF ft.k = "float32" THEN Outcome(VFloat32(F32(val.m)), Ok, << >>)
            ELSE Outcome(fv, Panic, << >>)

RECURSIVE FillFields(_, _, _)
RECURSIVE RangeFields(_, _, _, _, _)
RECURSIVE FillEntry(_, _, _, _)
RECURSIVE FillElems(_, _, _)

\* Doc._fillFields(v, fields) for a reflect.Value v of type t: the set of
\* outcomes over every iteration order of the Go map fields
FillFields(t, v, fields) ==
    IF t.k = "ptr"
    THEN \* for v.Kind() == reflect.Ptr { v = v.Elem() }; Elem of a nil
         \* pointer is the zero Value, whose Type() panics
         IF v.isnil THEN {Outcome(v, Panic, << >>)}
         ELSE {Outcome(VPtr(o.v), o.err, o.done) : o \in FillFields(t.elem, v.p, fields)}
    ELSE IF t.k # "struct"
    THEN \* vt.NumField() panics on a non-struct type
         {Outcome(v, Panic, << >>)}
    ELSE RangeFields(t, v, fields, DOMAIN fields, << >>)

RECURSIVE RangeFields_NoAbort(_, _, _, _, _)
\* RangeFields remembering the first error but finishing the loop
RangeFields_NoAbort(t, v, fields, todo, done) ==
    IF todo = {} THEN {Outcome(v, Ok, done)}
    ELSE UNION { UNION { LET rest == RangeFields_NoAbort(t, o.v, fields, todo \ {key},
                                                         Append(done, key))
                         IN  IF o.err = Ok THEN rest
                             ELSE {Outcome(r.v, o.err, Append(done, key)) : r \in rest}
                       : o \in FillEntry(t, v, key, fields[key]) }
               : key \in todo }

\* for key, val := range fields, with the keys in todo still to come
RangeFields(t, v, fields, todo, done) ==
    IF todo = {} THEN {Outcome(v, Ok, done)}
    ELSE UNION { UNION { IF o.err = Ok
                         THEN RangeFields(t, o.v, fields, todo \ {key}, Append(done, key))
                         ELSE {Outcome(o.v, o.err, Append(done, key))}
                       : o \in FillEntry(t, v, key, fields[key]) }
               : key \in todo }

\* FillMap binding into a fresh value of the field's type
FillMap_Fresh(ft, fv, val) ==
    IF ~val.generic THEN {Outcome(fv, ShapeMismatch, << >>)}
    ELSE FillFields(ft, Zero(ft), val.m)

\* case reflect.Map: the type assertion to map[string]interface{}, then the
\* recursive call on the field itself
FillMap(ft, fv, val) ==
    IF ~val.generic THEN {Outcome(fv, ShapeMismatch, << >>)}
    ELSE FillFields(ft, fv, val.m)

\* the body of the range loop for one entry (key, val) on the struct v
FillEntry(t, v, key, val) ==
    LET fieldMap == FieldMapOf(t.name)
    IN  IF key \notin DOMAIN fieldMap THEN {Outcome(v, Ok, << >>)}
        ELSE
        LET fieldKey == fieldMap[key]
            ft == FieldType(t.name, fieldKey)
            fv == v.f[fieldKey]
            Put(o) == Outcome(VStruct([v.f EXCEPT ![fieldKey] = o.v]), o.err, << >>)
        IN  CASE val.k = "nil" ->
                    \* reflect.TypeOf(nil) is nil: valT.Kind() panics
                    {Outcome(v, Panic, << >>)}
              [] val.k \in {"int", "string", "float32", "float64"} ->
                    {Put(SetScalar(ft, fv, val))}
              [] val.k = "map" -> {Put(o) : o \in FillMap(ft, fv, val)}
              [] val.k = "slice" ->
                    \* reflect.MakeSlice panics unless field.Type() is a slice type
                    IF ft.k # "slice" THEN {Outcome(v, Panic, << >>)}
                    ELSE {Put(o) : o \in FillElems(ft, fv, val)}
              [] OTHER -> {Outcome(v, UnsupportedType, << >>)}

RECURSIVE FillFrom(_, _, _, _)
\* the loop over sl.Index(i), from element i on, sl holding the elements
\* bound so far; the result value is the slice sl
FillFrom(et, val, sl, i) ==
    IF i > Len(sl) THEN {Outcome(sl, Ok, << >>)}
    ELSE IF ~val.ofmaps THEN {Outcome(sl, ShapeMismatch, << >>)}
    ELSE UNION { IF o.err = Ok
                 THEN FillFrom(et, val, [sl EXCEPT ![i] = o.v], i + 1)
                 ELSE {Outcome([sl EXCEPT ![i] = o.v], o.err, << >>)}
               : o \in FillFields(et, sl[i], val.e[i].m) }

\* FillElems binding into the elements the field already has
FillElems_Reuse(ft, fv, val) ==
    LET l == Len(val.e)
        sl == [j \in 1..l |-> IF j <= Len(fv.e) THEN fv.e[j] ELSE Zero(ft.elem)]
    IN  { IF o.err = Ok THEN Outcome(VSlice(o.v), Ok, << >>) ELSE Outcome(fv, o.err, << >>)
        : o \in FillFrom(ft.elem, val, sl, 1) }

\* case reflect.Slice: MakeSlice, bind every element, then field.Set(sl);
\* the field keeps fv unless every element succeeded
FillElems(ft, fv, val) ==
    LET l == Len(val.e)
        sl == [j \in 1..l |-> Zero(ft.elem)]
    IN  { IF o.err = Ok THEN Outcome(VSlice(o.v), Ok, << >>) ELSE Outcome(fv, o.err, << >>)
        : o \in FillFrom(ft.elem, val, sl, 1) }

\* fillFields without the test of vt.Kind()
fillFields_NoCheck(rt, rv, fields) == FillFields(rt, rv, fields)

\* Doc.fillFields(res, fields) for the interface value res of dynamic type rt
fillFields(rt, rv, fields) ==
    IF rt.k # "ptr" THEN {Outcome(rv, InvalidTarget, << >>)}
    ELSE FillFields(rt, rv, fields)

\* ---------------------------------------------------------------- inputs
\* populated instances of the target types
Sub3Val(z, w) == VStruct([Z |-> VInt(z), W |-> VString(w)])
SubVal(x, y, z, w) ==
    VStruct([X |-> VInt(x),
             Mid |-> VStruct([Y |-> VInt(y), Deep |-> Sub3Val(z, w)])])
FlatVal == VStruct([A |-> VInt(7), B |-> VString("p"), F |-> VFloat32(One + 4),
                    G |-> VFloat64(One + 3), U |-> VInt(8), H |-> VInt(9)])
NestVal == VStruct([N |-> VInt(7), Inner |-> SubVal(7, 8, 9, "p"),
                    P |-> VPtr(Sub3Val(9, "p"))])
ListVal == VStruct([C |-> VInt(7),
                    Items |-> VSlice(<< Sub3Val(7, "p"), Sub3Val(8, "p"),
                                        Sub3Val(9, "p"), Sub3Val(6, "p") >>),
                    Refs |-> VSlice(<< VPtr(Sub3Val(9, "p")) >>)])

\* the instances a caller may hold: the fresh (zero) one and a populated one
Instances(n) ==
    {Zero(TStruct(n))} \cup
    ( CASE n = "Flat" -> {FlatVal}
        [] n = "Nest" -> {NestVal}
        [] n = "List" -> {ListVal} )

TopTypes == {"Flat", "Nest", "List"}

\* what a caller may pass as res, as <<dynamic type, value>>: a struct by
\* value, an int by value, &struct, &&struct, a typed nil pointer, &int
Targets ==
    UNION { UNION { { << TStruct(n), v >>, << TPtr(TStruct(n)), VPtr(v) >>,
                      << TPtr(TPtr(TStruct(n))), VPtr(VPtr(v)) >> } : v \in Instances(n) }
          : n \in TopTypes }
    \cup { << TPtr(TStruct(n)), VNilPtr >> : n \in TopTypes }
    \cup { << TInt, VInt(7) >>, << TPtr(TInt), VPtr(VInt(7)) >> }

RECURSIVE BaseStruct(_)
\* the struct type a type leads to through its pointers ("" if none)
BaseStruct(t) ==
    IF t.k = "ptr" THEN BaseStruct(t.elem)
    ELSE IF t.k = "struct" THEN t.name ELSE ""

\* source values of every shape, for keys the target does not declare
AnyShape ==
    { VInt(5), VNil, VBool(TRUE), VMap(FALSE, << >>),
      VMap(TRUE, [a |-> VInt(5)]), VSeq(FALSE, << VInt(1) >>) }

\* nested Mappings for a Sub3 element or field
Sub3Maps ==
    { VMap(TRUE, [z |-> VInt(1)]),
      VMap(TRUE, [z |-> VInt(2), w |-> VString("q")]),
      VMap(TRUE, [z |-> VInt(3), w |-> VBool(TRUE)]) }

RECURSIVE SeqsOf(_, _)
\* the sequences of length at most n over the set S
SeqsOf(S, n) ==
    IF n = 0 THEN { << >> }
    ELSE LET shorter == SeqsOf(S, n - 1)
         IN  shorter \cup { Append(q, x) : q \in shorter, x \in S }

\* the entries (key, value) a field map for struct type n is built from
Entries(n) ==
    CASE n = "Flat" ->
            ({"a"} \X { VInt(5), VString("text"), VFloat64(One + 1), VBool(TRUE), VNil,
                        VMap(TRUE, [z |-> VInt(1)]) })
            \cup ({"b"} \X { VString("q"), VInt(5), VFloat64(One + 1) })
            \cup ({"f"} \X { VFloat64(One + 1), VFloat32(One + 2), VInt(5) })
            \cup ({"g"} \X { VFloat64(One + 1), VFloat32(One + 2), VString("text") })
            \cup ({"unknown"} \X AnyShape)
            \cup ({"U", "H", "-", "", "A"} \X { VInt(5) })
      [] n = "Nest" ->
            ({"n"} \X { VInt(5), VBool(TRUE) })
            \cup ({"inner"} \X
                    { VMap(TRUE, [x |-> VInt(1)]),
                      VMap(TRUE, [mid |-> VMap(TRUE, [y |-> VInt(2)])]),
                      VMap(TRUE, [mid |-> VMap(TRUE, [deep |-> VMap(TRUE, [z |-> VInt(3)])])]),
                      VMap(TRUE, [x |-> VInt(1),
                                  mid |-> VMap(TRUE, [y |-> VInt(2),
                                                  deep |-> VMap(TRUE, [z |-> VInt(3),
                                                                       w |-> VString("q")])])]),
                      VMap(TRUE, [x |-> VInt(1),
                                  mid |-> VMap(TRUE, [y |-> VInt(2),
                                                  deep |-> VMap(TRUE, [z |-> VInt(3),
                                                                       w |-> VInt(4)])])]),
                      VMap(TRUE, [x |-> VInt(1), mid |-> VMap(FALSE, << >>)]),
                      VMap(FALSE, << >>), VInt(5) })
            \cup ({"p"} \X Sub3Maps)
            \cup ({"unknown"} \X { VNil, VMap(TRUE, [n |-> VInt(5)]) })
      [] n = "List" ->
            ({"c"} \X { VInt(5), VBool(TRUE) })
            \cup ({"items"} \X
                    ( { VSeq(TRUE, q) : q \in SeqsOf(Sub3Maps, MaxSeqLen) }
                      \cup { VSeq(FALSE, << >>), VSeq(FALSE, << VInt(1), VInt(2), VInt(3) >>),
                             VSeq(FALSE, << VMap(TRUE, [z |-> VInt(1)]) >>) } ))
            \cup ({"refs"} \X { VSeq(TRUE, << >>), VSeq(TRUE, << VMap(TRUE, [z |-> VInt(1)]) >>) })
            \cup ({"unknown"} \X { VSeq(FALSE, << VInt(1) >>) })
      [] OTHER -> {"a"} \X { VInt(5) }

RECURSIVE MapsOf(_, _)
\* the field maps of at most n entries drawn from the entry set E
MapsOf(E, n) ==
    IF n = 0 THEN { << >> }
    ELSE LET smaller == MapsOf(E, n - 1)
         IN  smaller \cup { m @@ (e[1] :> e[2]) : m \in smaller, e \in E }

\* the field maps the Document Store may hand to fillFields for target type rt
FieldMaps(rt) == MapsOf(Entries(BaseStruct(rt)), MaxKeys)

\* ---------------------------------------------------------------- state
VARIABLES
    resType,    \* dynamic type of the value passed as res
    res,        \* the value passed as res, as the call left it
    prior,      \* res as it was before the call
    fields,     \* the field map of the call
    err,        \* what the call returned (NoCall before it)
    done,       \* keys taken by the top-level range loop, in order
    urls,       \* package variable urls: name -> url
    clients,    \* package variable clients: name -> *client
    heap,       \* the client objects allocated so far: address -> client
    indexes,    \* the Index values NewIndex returned, in call order
    exited,     \* log.Fatal ended the process
    registered  \* number of RegisterClient calls so far

bindVars == << resType, res, prior, fields, err, done >>
regVars == << urls, clients, heap, indexes, exited, registered >>
vars == << resType, res, prior, fields, err, done,
           urls, clients, heap, indexes, exited, registered >>

\* the package variables as initialised: both maps empty
RegInit ==
    /\ urls = << >>
    /\ clients = << >>
    /\ heap = << >>
    /\ indexes = << >>
    /\ exited = FALSE
    /\ registered = 0

\* a caller holding a target, before Doc.fillFields is called
Init ==
    /\ \E t \in Targets : resType = t[1] /\ res = t[2] /\ prior = t[2]
    /\ fields = << >>
    /\ err = NoCall
    /\ done = << >>
    /\ RegInit

\* Doc.fillFields(res, fields), from the call to its return or panic
FillFieldsCall ==
    /\ err = NoCall
    /\ \E F \in FieldMaps(resType) :
       \E o \in fillFields(resType, res, F) :
          /\ fields' = F
          /\ prior' = res
          /\ res' = o.v
          /\ err' = o.err
          /\ done' = o.done
    /\ UNCHANGED << resType, urls, clients, heap, indexes, exited, registered >>

\* ---------------------------------------------------------------- registry
\* the names and urls callers use
Names == {"db", "local"}
Urls == {"http://127.0.0.1:9200", "http://10.0.0.2:9200"}
IndexNames == {"index1", "unit_test"}

\* func RegisterClient(name, url string): urls[name] = url
RegisterClient ==
    /\ ~exited
    /\ registered < MaxRegister
    /\ \E name \in Names, url \in Urls :
          urls' = [n \in (DOMAIN urls) \cup {name} |-> IF n = name THEN url ELSE urls[n]]
    /\ registered' = registered + 1
    /\ UNCHANGED << clients, heap, indexes, exited, bindVars >>

\* newClient that never looks into clients
newClient_NoCache(name, connOk, index) ==
    IF name \notin DOMAIN urls
    THEN exited' = TRUE /\ UNCHANGED << clients, heap, indexes >>
    ELSE /\ heap' = Append(heap, [name |-> name, url |-> urls[name], conn |-> connOk])
         /\ clients' = [n \in (DOMAIN clients) \cup {name} |->
                            IF n = name THEN Len(heap) + 1 ELSE clients[n]]
         /\ IF connOk
            THEN /\ indexes' = Append(indexes, [name |-> index, cl |-> Len(heap) + 1])
                 /\ UNCHANGED exited
            ELSE exited' = TRUE /\ UNCHANGED indexes

\* func newClient(name string) *client, and what NewIndex does with the
\* client it returns: the cached client, or log.Fatal on an unknown name,
\* or a new client{name, url} stored in clients before checkConn, whose
\* newConn either succeeds (connOk) or ends the process through log.Fatal
newClient(name, connOk, index) ==
    IF name \in DOMAIN clients
    THEN /\ indexes' = Append(indexes, [name |-> index, cl |-> clients[name]])
         /\ UNCHANGED << clients, heap, exited >>
    ELSE IF name \notin DOMAIN urls
    THEN exited' = TRUE /\ UNCHANGED << clients, heap, indexes >>
    ELSE /\ heap' = Append(heap, [name |-> name, url |-> urls[name], conn |-> connOk])
         /\ clients' = [n \in (DOMAIN clients) \cup {name} |->
                            IF n = name THEN Len(heap) + 1 ELSE clients[n]]
         /\ IF connOk
            THEN /\ indexes' = Append(indexes, [name |-> index, cl |-> Len(heap) + 1])
                 /\ UNCHANGED exited
            ELSE exited' = TRUE /\ UNCHANGED indexes

\* func NewIndex(name, db string) *Index
NewIndex ==
    /\ ~exited
    /\ Len(indexes) < MaxIndexes
    /\ \E name \in IndexNames, db \in Names, connOk \in BOOLEAN :
          newClient(db, connOk, name)
    /\ UNCHANGED << urls, registered, bindVars >>

\* the process at start: no call made on a target, the registry as declared
RegistryInit ==
    /\ resType = TInt /\ res = VInt(0) /\ prior = VInt(0)
    /\ fields = << >> /\ err = NoCall /\ done = << >>
    /\ RegInit

RegistryNext == RegisterClient \/ NewIndex

Registry == RegistryInit /\ [][RegistryNext]_vars

Next == FillFieldsCall

Spec == Init /\ [][Next]_vars

\* ---------------------------------------------------------------- reading the state
RECURSIVE Pointee(_, _)
\* the value a target leads to through its pointers (VNil through a nil one)
Pointee(t, v) ==
    IF t.k = "ptr" THEN (IF v.isnil THEN VNil ELSE Pointee(t.elem, v.p)) ELSE v

\* a call has returned or panicked
Called == err # NoCall
\* the call was given a pointer that leads to a struct instance
StructTarget == resType.k = "ptr" /\ Pointee(resType, prior).k = "struct"
\* the struct type bound, the instance before the call and after it
T == TStruct(BaseStruct(resType))
Before == Pointee(resType, prior)
After == Pointee(resType, res)
\* the tags declared on struct type n, read off the declaration
Tags(n) == {StructFields(n)[i].tag : i \in 1..Len(StructFields(n))} \ {"", "-"}
\* the declared field of struct type n that carries tag
TagField(n, tag) ==
    StructFields(n)[CHOOSE i \in 1..Len(StructFields(n)) : StructFields(n)[i].tag = tag]
TagType(n, tag) == TagField(n, tag).type
\* the value of the field of struct value v (of type n) that carries tag
TagValue(n, v, tag) == v.f[TagField(n, tag).name]
\* the keys the top-level range loop took, and those it never took
Taken == {done[i] : i \in 1..Len(done)}
NotTaken == DOMAIN fields \ Taken
\* the call's field map as a Mapping
FieldsMap == VMap(TRUE, fields)

IsScalarType(t) == t.k \in {"int", "string", "float32", "float64"}
IsScalar(val) == val.k \in {"int", "string", "float32", "float64", "bool"}
\* int, string, float (either width), bool
Category(k) == IF k \in {"float32", "float64"} THEN "float" ELSE k
\* the source scalar val is of the kind the scalar type t takes
SameKind(t, val) == IsScalar(val) /\ Category(val.k) = Category(t.k)

\* the content of a scalar field of type t that holds the source scalar val
\* (a float32 field holds the float32 nearest to a float64 source)
Stored(t, val) ==
    CASE t.k = "int" -> VInt(val.i)
      [] t.k = "string" -> VString(val.s)
      [] t.k = "float64" -> VFloat64(val.m)
      [] t.k = "float32" -> VFloat32(F32(val.m))

RECURSIVE Matches(_, _)
\* the source value val has the shape the declared type t asks for: the
\* scalar of the field's kind, a Mapping of declared tags for a struct
\* (through pointers), a sequence of such Mappings for a slice
Matches(t, val) ==
    CASE IsScalarType(t) -> SameKind(t, val)
      [] t.k = "ptr" -> Matches(t.elem, val)
      [] t.k = "struct" ->
            /\ val.k = "map" /\ val.generic
            /\ \A tag \in DOMAIN val.m :
                  tag \in Tags(t.name) /\ Matches(TagType(t.name, tag), val.m[tag])
      [] t.k = "slice" ->
            /\ val.k = "slice" /\ val.ofmaps
            /\ \A i \in 1..Len(val.e) : Matches(t.elem, val.e[i])
      [] OTHER -> FALSE

RECURSIVE Bound(_, _, _, _)
\* post is pre after binding val into it: a scalar field holds the source
\* scalar, a struct holds the bound value in every field whose tag the
\* Mapping has and the prior value in every other field, a slice holds one
\* element per Mapping, each a zero element bound from its Mapping
Bound(t, pre, post, val) ==
    CASE IsScalarType(t) -> SameKind(t, val) /\ post = Stored(t, val)
      [] t.k = "ptr" ->
            ~pre.isnil /\ ~post.isnil /\ Bound(t.elem, pre.p, post.p, val)
      [] t.k = "struct" ->
            /\ val.k = "map"
            /\ \A i \in 1..Len(StructFields(t.name)) :
                  LET fd == StructFields(t.name)[i]
                  IN  IF fd.tag \in Tags(t.name) \cap DOMAIN val.m
                      THEN Bound(fd.type, pre.f[fd.name], post.f[fd.name], val.m[fd.tag])
                      ELSE post.f[fd.name] = pre.f[fd.name]
      [] t.k = "slice" ->
            /\ val.k = "slice"
            /\ Len(post.e) = Len(val.e)
            /\ \A i \in 1..Len(val.e) : Bound(t.elem, Zero(t.elem), post.e[i], val.e[i])
      [] OTHER -> FALSE

RECURSIVE Lands(_, _, _)
\* every Mapping of val meets a struct instance in v: no pointer on its way
\* is nil, in the prior instance or in a fresh slice element
Lands(t, v, val) ==
    CASE t.k = "ptr" -> ~v.isnil /\ Lands(t.elem, v.p, val)
      [] t.k = "struct" /\ val.k = "map" ->
            \A tag \in Tags(t.name) \cap DOMAIN val.m :
                Lands(TagType(t.name, tag), TagValue(t.name, v, tag), val.m[tag])
      [] t.k = "slice" /\ val.k = "slice" ->
            \A i \in 1..Len(val.e) : Lands(t.elem, Zero(t.elem), val.e[i])
      [] OTHER -> TRUE

\* every key of the call's field map is a tag declared on the target type
\* and its value matches the declared kind of that field
WellTyped ==
    \A key \in DOMAIN fields :
        key \in Tags(T.name) /\ Matches(TagType(T.name, key), fields[key])

\* key is the one entry of the call's field map that names a declared tag
OnlyDeclared(key) ==
    key \in DOMAIN fields /\ (DOMAIN fields) \cap Tags(T.name) = {key}

\* ---------------------------------------------------------------- claims

\* C1: for every field map whose keys are all declared tags and whose values
\* match the declared field kinds, fillFields returns nil, every field named
\* in the map holds the map's value and every other field its prior value,
\* whatever the iteration order.
C1_PartialUpdateExact ==
    (Called /\ StructTarget /\ WellTyped) =>
        (err = Ok /\ Bound(T, Before, After, FieldsMap))

\* The same statement for the calls in which every Mapping meets a struct
\* instance (no nil pointer on its way): there it holds.
PartialUpdateExactWhereLanding ==
    (Called /\ StructTarget /\ WellTyped /\ Lands(T, Before, FieldsMap)) =>
        (err = Ok /\ Bound(T, Before, After, FieldsMap))

\* C2: a key that is no declared tag (the Go name of a field, the name of an
\* untagged field, "-", "") is skipped whatever its value: the call ends as
\* a call with the declared entries alone can end, and a field map of
\* unknown keys only returns nil and leaves the target as it was.
C2_UnknownTagsSkipped ==
    (Called /\ StructTarget) =>
        LET known == [key \in (DOMAIN fields) \cap Tags(T.name) |-> fields[key]]
        IN  /\ (DOMAIN known = {}) => (err = Ok /\ res = prior)
            /\ \E o \in fillFields(resType, prior, known) : o.v = res /\ o.err = err

\* C2 witness: a returned call whose map had unknown keys of several shapes,
\* among them nil under the name of an untagged or "-" field
C2_Witness ==
    /\ Called /\ StructTarget /\ err = Ok /\ T.name = "Flat"
    /\ (DOMAIN fields) \cap {"U", "H", "-"} # {}
    /\ "unknown" \in DOMAIN fields /\ fields["unknown"] = VNil
    /\ "a" \in DOMAIN fields /\ res # prior

\* C3: a scalar of another kind than the declared one (string for int, int
\* for float, float for int, number for string) makes fillFields return the
\* unsupported-type error, the field keeping its prior value.
C3_ScalarMismatchIsError ==
    \A key \in DOMAIN fields :
        ( /\ Called /\ StructTarget /\ OnlyDeclared(key)
          /\ IsScalarType(TagType(T.name, key))
          /\ IsScalar(fields[key])
          /\ ~SameKind(TagType(T.name, key), fields[key]) )
        => (err = UnsupportedType /\ res = prior)

\* C4: a sequence of any length that is not a []map[string]interface{},
\* given for a field declared as a slice of structs, makes fillFields
\* return the could-not-cast error; the field is not assigned.
C4_NonMappingSequenceRejected ==
    \A key \in DOMAIN fields :
        ( /\ Called /\ StructTarget /\ OnlyDeclared(key)
          /\ TagType(T.name, key).k = "slice"
          /\ TagType(T.name, key).elem.k = "struct"
          /\ fields[key].k = "slice" /\ ~fields[key].ofmaps )
        => (err = ShapeMismatch /\ res = prior)

\* C5: a target that is no struct after dereferencing (a pointer to an int
\* at the top, a scalar field given a Mapping) makes fillFields return the
\* could-not-cast error.
C5_NonStructuralIsError ==
    /\ (Called /\ resType.k = "ptr" /\ BaseStruct(resType) = "") => err = ShapeMismatch
    /\ \A key \in DOMAIN fields :
         ( /\ Called /\ StructTarget /\ OnlyDeclared(key)
           /\ IsScalarType(TagType(T.name, key))
           /\ fields[key].k = "map" /\ fields[key].generic )
         => err = ShapeMismatch

RECURSIVE PriorOrGiven(_, _, _, _)
\* leaf by leaf, post holds what pre held or what val gives for it; a slice
\* field counts as one leaf (it is replaced whole or not at all)
PriorOrGiven(t, pre, post, val) ==
    CASE IsScalarType(t) ->
            post = pre \/ (SameKind(t, val) /\ post = Stored(t, val))
      [] t.k = "ptr" ->
            IF pre.isnil THEN post = pre
            ELSE ~post.isnil /\ PriorOrGiven(t.elem, pre.p, post.p, val)
      [] t.k = "struct" ->
            IF val.k # "map" THEN post = pre
            ELSE \A i \in 1..Len(StructFields(t.name)) :
                    LET fd == StructFields(t.name)[i]
                    IN  IF fd.tag \in Tags(t.name) \cap DOMAIN val.m
                        THEN PriorOrGiven(fd.type, pre.f[fd.name], post.f[fd.name],
                                          val.m[fd.tag])
                        ELSE post.f[fd.name] = pre.f[fd.name]
      [] t.k = "slice" -> post = pre \/ Bound(t, pre, post, val)
      [] OTHER -> post = pre

\* C6: when fillFields returns an error it stems from the last entry the
\* range loop took, a declared one whose value does not fit its field;
\* the entries taken before it keep their newly bound values, the entries
\* not yet taken were never processed and their fields keep their prior
\* values; so every leaf holds its prior value or the value given for it.
C6_FirstErrorAborts ==
    (Called /\ StructTarget /\ err \in {ShapeMismatch, UnsupportedType}) =>
        /\ Len(done) >= 1
        /\ Taken \subseteq DOMAIN fields
        /\ Cardinality(Taken) = Len(done)
        /\ LET failing == done[Len(done)]
           IN  /\ failing \in Tags(T.name)
               /\ ~Matches(TagType(T.name, failing), fields[failing])
        /\ \A i \in 1..(Len(done) - 1) :
              done[i] \in Tags(T.name) =>
                  Bound(TagType(T.name, done[i]), TagValue(T.name, Before, done[i]),
                        TagValue(T.name, After, done[i]), fields[done[i]])
        /\ \A key \in NotTaken \cap Tags(T.name) :
              TagValue(T.name, After, key) = TagValue(T.name, Before, key)
        /\ PriorOrGiven(T, Before, After, FieldsMap)

\* C6 witness: an error returned by the second entry taken, the first one
\* having changed the target, a third one that would bind never taken
C6_Witness ==
    /\ Called /\ StructTarget /\ err = UnsupportedType
    /\ Len(done) = 2 /\ done[1] \in Tags(T.name)
    /\ TagValue(T.name, After, done[1]) # TagValue(T.name, Before, done[1])
    /\ TagValue(T.name, After, done[2]) = TagValue(T.name, Before, done[2])
    /\ \E key \in NotTaken \cap Tags(T.name) :
          /\ Matches(TagType(T.name, key), fields[key])
          /\ IsScalarType(TagType(T.name, key))
          /\ TagValue(T.name, Before, key) # Stored(TagType(T.name, key), fields[key])

RECURSIVE SrcPaths(_)
\* the tag paths of a Mapping that end in a value that is no Mapping
SrcPaths(val) ==
    IF val.k = "map"
    THEN UNION { { << tag >> \o p : p \in SrcPaths(val.m[tag]) } : tag \in DOMAIN val.m }
    ELSE { << >> }

RECURSIVE SrcAt(_, _)
\* the source value at the end of a tag path
SrcAt(val, path) ==
    IF path = << >> THEN val ELSE SrcAt(val.m[Head(path)], Tail(path))

RECURSIVE TypeAt(_, _)
\* the declared type at the end of a tag path, read through pointers
TypeAt(t, path) ==
    IF t.k = "ptr" THEN TypeAt(t.elem, path)
    ELSE IF path = << >> THEN t
    ELSE TypeAt(TagType(t.name, Head(path)), Tail(path))

RECURSIVE ValueAt(_, _, _)
\* the target value at the end of a tag path, read through pointers
ValueAt(t, v, path) ==
    IF t.k = "ptr" /\ ~v.isnil THEN ValueAt(t.elem, v.p, path)
    ELSE IF path = << >> THEN v
    ELSE ValueAt(TagType(t.name, Head(path)), TagValue(t.name, v, Head(path)), Tail(path))

RECURSIVE TargetPaths(_, _)
\* the tag paths of a target that end in a field that is no struct
TargetPaths(t, v) ==
    IF t.k = "ptr" /\ ~v.isnil THEN TargetPaths(t.elem, v.p)
    ELSE IF t.k = "struct"
    THEN UNION { { << tag >> \o p :
                     p \in TargetPaths(TagType(t.name, tag), TagValue(t.name, v, tag)) }
               : tag \in Tags(t.name) }
    ELSE { << >> }

\* C7: with structs nested up to three levels below the target and a field
\* map nested alike, fillFields returns nil, the scalar at the end of every
\* tag path of the map is in the field at the end of the same path, and a
\* nested field whose path the map does not have keeps its prior value.
C7_RecursiveBinding ==
    (Called /\ StructTarget /\ WellTyped /\ Lands(T, Before, FieldsMap)) =>
        /\ err = Ok
        /\ \A p \in TargetPaths(T, Before) :
              IF p \in SrcPaths(FieldsMap)
              THEN IsScalarType(TypeAt(T, p)) =>
                      ValueAt(T, After, p) = Stored(TypeAt(T, p), SrcAt(FieldsMap, p))
              ELSE ValueAt(T, After, p) = ValueAt(T, Before, p)

\* C7 witness: a leaf three structs down was bound while its sibling, absent
\* from the innermost Mapping, kept a prior value that is not the zero value
C7_Witness ==
    /\ Called /\ StructTarget /\ err = Ok /\ T.name = "Nest"
    /\ << "inner", "mid", "deep", "z" >> \in SrcPaths(FieldsMap)
    /\ << "inner", "mid", "deep", "w" >> \notin SrcPaths(FieldsMap)
    /\ ValueAt(T, After, << "inner", "mid", "deep", "z" >>) = VInt(3)
    /\ ValueAt(T, Before, << "inner", "mid", "deep", "z" >>) = VInt(9)
    /\ ValueAt(T, After, << "inner", "mid", "deep", "w" >>) = VString("p")

C9_SequenceReplacedAtomically ==
    \A key \in DOMAIN fields :
        ( /\ Called /\ StructTarget /\ key \in Tags(T.name)
          /\ TagType(T.name, key).k = "slice"
          /\ fields[key].k = "slice" /\ fields[key].ofmaps )
        => LET et == TagType(T.name, key).elem
               pre == TagValue(T.name, Before, key)
               post == TagValue(T.name, After, key)
               val == fields[key]
           IN  /\ err = Ok =>
                    /\ Len(post.e) = Len(val.e)
                    /\ \A i \in 1..Len(val.e) : Bound(et, Zero(et), post.e[i], val.e[i])
               /\ (err # Ok /\ done[Len(done)] = key) => post = pre
               /\ key \in NotTaken => post = pre

\* C9 witness: two Mappings replaced a longer prior slice, the first element
\* holding the zero value where its Mapping has no entry
C9_Witness ==
    /\ Called /\ StructTarget /\ err = Ok /\ T.name = "List"
    /\ "items" \in DOMAIN fields /\ fields["items"].ofmaps
    /\ Len(fields["items"].e) = 2
    /\ "w" \notin DOMAIN fields["items"].e[1].m
    /\ Len(Before.f["Items"].e) > 2
    /\ Before.f["Items"].e[1].f["W"] = VString("p")
    /\ After.f["Items"].e[1].f["W"] = VString("")

\* the address of the client of name n in clients (0 if none)
ClientOf(n) == IF n \in DOMAIN clients THEN clients[n] ELSE 0

\* C10: the registry holds at most one client per name; NewIndex hands out
\* the client already held for the name, or, at the first call for it, a
\* new client with the url registered at that moment; no step, a later
\* RegisterClient for the name included, changes a client once made.
C10_OneClientPerName ==
    [][ /\ \A i \in 1..Len(heap) : heap'[i] = heap[i]
        /\ \A i, j \in 1..Len(heap') : heap'[i].name = heap'[j].name => i = j
        /\ \A n \in DOMAIN clients : n \in DOMAIN clients' /\ clients'[n] = clients[n]
        /\ \A n \in DOMAIN clients' : heap'[clients'[n]].name = n
        /\ \A i \in 1..Len(indexes) : indexes'[i] = indexes[i]
        /\ Len(indexes') > Len(indexes) =>
             LET idx == indexes'[Len(indexes')]
                 db == heap'[idx.cl].name
             IN  /\ Len(indexes') = Len(indexes) + 1
                 /\ clients'[db] = idx.cl
                 /\ IF db \in DOMAIN clients
                    THEN heap' = heap
                    ELSE heap'[idx.cl].url = urls[db]
        /\ urls' # urls => (heap' = heap /\ clients' = clients)
      ]_vars

\* C10 witness: two Index values share the client of one name, whose url is
\* no longer the one the url table has for that name
C10_Witness ==
    /\ ~exited
    /\ \E i, j \in 1..Len(indexes) :
          /\ i < j /\ indexes[i].cl = indexes[j].cl
          /\ LET c == heap[indexes[i].cl]
             IN  /\ c.name \in DOMAIN urls /\ urls[c.name] # c.url
                 /\ ClientOf(c.name) = indexes[i].cl

====
